---- MODULE Spec2Model ----
(***************************************************************************)
(* Model of src/app.py: the Streamlit "Fetch Transactions" handler and     *)
(* scrape_mantra_data, the Selenium scraper it calls.                      *)
(*                                                                         *)
(* Python strings are sequences of one-character strings, so that strip,   *)
(* re.sub, float and split are computed character by character.            *)
(***************************************************************************)
EXTENDS Integers, Sequences, FiniteSets, TLC

VARIABLES wallet_address, page, pc, driver, rows, i, data, df, metrics, log

vars == <<wallet_address, page, pc, driver, rows, i, data, df, metrics, log>>

(***************************************************************************)
(* Bounds of the model.                                                    *)
(***************************************************************************)
MaxRows == 3
MaxAmountLen == 5
MaxHrefParts == 5

(***************************************************************************)
(* Text.                                                                   *)
(***************************************************************************)
Digits == {"0", "1", "2", "3", "4", "5", "6", "7", "8", "9"}
Whitespace == {" "}

StrSet(A, n) == UNION {[1..k -> A] : k \in 0..n}

RECURSIVE LStrip(_)
LStrip(s) == IF s # <<>> /\ Head(s) \in Whitespace THEN LStrip(Tail(s)) ELSE s

RECURSIVE RStrip(_)
RStrip(s) ==
    IF s # <<>> /\ s[Len(s)] \in Whitespace
    THEN RStrip(SubSeq(s, 1, Len(s) - 1))
    ELSE s

\* str.strip()
Strip(s) == RStrip(LStrip(s))

\* A read that raises (stale element) or yields None: .strip() cannot run.
NoText == <<"<unreadable>">>
\* get_attribute("href") of an anchor without the attribute.
NoneHref == <<"<None>">>

TxMarker == <<"/", "t", "x", "/">>

\* Index of the first occurrence of m in s, 0 when there is none.
FindFirst(s, m) ==
    LET hits == {k \in 1..(Len(s) - Len(m) + 1) : SubSeq(s, k, k + Len(m) - 1) = m}
    IN  IF hits = {} THEN 0 ELSE CHOOSE k \in hits : \A j \in hits : k <= j

\* "/tx/" in txn_link
Contains(s, m) == FindFirst(s, m) # 0

\* s.split(m)[-1]: str.split scans left to right over non-overlapping
\* occurrences; the last piece is what follows the last one it found.
RECURSIVE SplitLast(_, _)
SplitLast(s, m) ==
    LET k == FindFirst(s, m)
    IN  IF k = 0 THEN s ELSE SplitLast(SubSeq(s, k + Len(m), Len(s)), m)

\* re.sub(r'[^\d.-]', '', raw_delta_text)
CleanAmount(s) == SelectSeq(s, LAMBDA c : c \in Digits \cup {".", "-"})

DigitVal(c) ==
    CASE c = "0" -> 0 [] c = "1" -> 1 [] c = "2" -> 2 [] c = "3" -> 3
      [] c = "4" -> 4 [] c = "5" -> 5 [] c = "6" -> 6 [] c = "7" -> 7
      [] c = "8" -> 8 [] c = "9" -> 9

RECURSIVE DigitsValue(_)
DigitsValue(ds) ==
    IF ds = <<>> THEN 0
    ELSE 10 * DigitsValue(SubSeq(ds, 1, Len(ds) - 1)) + DigitVal(ds[Len(ds)])

\* float(s) for a text over digits, '.' and '-' (what CleanAmount leaves):
\* an optional single leading '-', then digits with at most one '.', and at
\* least one digit; anything else raises ValueError (ok = FALSE).  The value
\* is num / 10^scale.  (A double rounds the magnitude but keeps the sign for
\* every text shorter than about 300 characters.)
ParseFloat(s) ==
    LET neg   == s # <<>> /\ Head(s) = "-"
        body  == IF neg THEN Tail(s) ELSE s
        digs  == SelectSeq(body, LAMBDA c : c \in Digits)
        dots  == {k \in 1..Len(body) : body[k] = "."}
        ok    == /\ \A k \in 1..Len(body) : body[k] \in Digits \cup {"."}
                 /\ Cardinality(dots) <= 1
                 /\ digs # <<>>
        mag   == DigitsValue(digs)
        scale == IF dots = {} THEN 0 ELSE Len(body) - (CHOOSE k \in dots : TRUE)
    IN  IF ok
        THEN [ok |-> TRUE, num |-> IF neg THEN 0 - mag ELSE mag, scale |-> scale]
        ELSE [ok |-> FALSE, num |-> 0, scale |-> 0]

\* amount_val = 0.0
ZeroAmount == [num |-> 0, scale |-> 0]

ClassifyZeroIsInflow(raw_delta_text) ==
    LET p == ParseFloat(CleanAmount(raw_delta_text))
    IN  IF ~p.ok
        THEN [amount_val |-> ZeroAmount, direction |-> "Neutral"]
        ELSE [amount_val |-> [num |-> p.num, scale |-> p.scale],
              direction  |-> IF p.num < 0 THEN "Outflow" ELSE "Inflow"]

\* Lines 133-150: direction and amount_val from the amount cell's text.
Classify(raw_delta_text) ==
    LET p == ParseFloat(CleanAmount(raw_delta_text))
    IN  IF ~p.ok
        THEN [amount_val |-> ZeroAmount, direction |-> "Neutral"]
        ELSE [amount_val |-> [num |-> p.num, scale |-> p.scale],
              direction  |-> IF p.num < 0 THEN "Outflow"
                             ELSE IF p.num > 0 THEN "Inflow"
                             ELSE "Neutral"]

(***************************************************************************)
(* A table row of the page: how many td cells it has and what each read    *)
(* of the first five yields.  The transaction cell has its own text and    *)
(* possibly an anchor with an href and a text.                             *)
(***************************************************************************)
MinCols == 5

EnoughColsOffByOne(row) == row.ncols >= MinCols - 1

\* Line 98, negated: the row is processed.
EnoughCols(row) == row.ncols >= MinCols

HashFromLinkFirstPiece(txn_link) ==
    LET k == FindFirst(txn_link, TxMarker)
    IN  SubSeq(txn_link, 1, k - 1)

\* Line 113: txn_link.split("/tx/")[-1]
HashFromLink(txn_link) == SplitLast(txn_link, TxMarker)

\* Lines 106-116, the try block: raises when there is no anchor, when the
\* href is None ("/tx/" in None is a TypeError), or when the anchor's text
\* is needed and cannot be read.
TxnTryRaises(cell) ==
    \/ ~cell.hasAnchor
    \/ cell.href = NoneHref
    \/ cell.href = NoText
    \/ ~Contains(cell.href, TxMarker) /\ cell.anchorText = NoText

\* Lines 106-119: the transaction hash and link of a row.
TxnOf(cell) ==
    IF TxnTryRaises(cell)
    THEN [raises   |-> cell.text = NoText,
          txn_hash |-> IF cell.text = NoText THEN <<>> ELSE Strip(cell.text),
          txn_link |-> <<>>]
    ELSE [raises   |-> FALSE,
          txn_hash |-> IF Contains(cell.href, TxMarker)
                       THEN HashFromLink(cell.href)
                       ELSE Strip(cell.anchorText),
          txn_link |-> cell.href]

\* Lines 101-150: a read outside the transaction cell's try block raises
\* into the function's handler.
RowRaises(row) ==
    \/ row.block = NoText
    \/ TxnOf(row.txn).raises
    \/ row.ts = NoText
    \/ row.bal = NoText
    \/ row.amt = NoText

\* Lines 101-160: the record appended for a row.
RowRecord(row) ==
    LET raw_delta_text == Strip(row.amt)
    IN  [Block      |-> Strip(row.block),
         Txn_Hash   |-> TxnOf(row.txn).txn_hash,
         Txn_Link   |-> TxnOf(row.txn).txn_link,
         Timestamp  |-> Strip(row.ts),
         Balance_OM |-> Strip(row.bal),
         Amount     |-> raw_delta_text,
         Direction  |-> Classify(raw_delta_text).direction]

(***************************************************************************)
(* The pages driver.get can load: the rows of "table tbody tr".            *)
(***************************************************************************)
GoodLink == <<"h", "/", "t", "x", "/", "a", "b">>

BaseTxn == [text |-> <<"a", ".">>, hasAnchor |-> TRUE, href |-> GoodLink,
            anchorText |-> <<"a", ".">>]

BaseRow == [ncols |-> MinCols, block |-> <<"7">>, txn |-> BaseTxn,
            ts |-> <<"J", "a", "n">>, bal |-> <<"9">>, amt |-> <<"1">>]

\* A row that differs from BaseRow in every cell but the amount.
AltRow == [ncols |-> MinCols + 1, block |-> <<" ", "8">>,
           txn |-> [text |-> <<"c">>, hasAnchor |-> FALSE, href |-> NoneHref,
                    anchorText |-> NoText],
           ts |-> <<>>, bal |-> <<"0">>, amt |-> <<"1">>]

TxnCells ==
    { [BaseTxn EXCEPT !.hasAnchor = FALSE],
      [BaseTxn EXCEPT !.hasAnchor = FALSE, !.text = NoText],
      [BaseTxn EXCEPT !.href = NoneHref],
      [BaseTxn EXCEPT !.href = <<"h", "/", "a">>, !.anchorText = <<" ", "a", " ">>],
      [BaseTxn EXCEPT !.href = <<"h", "/", "a">>, !.anchorText = NoText],
      [BaseTxn EXCEPT !.text = NoText] }

\* Rows with too few cells (a header or placeholder row).
ShortRows == {[BaseRow EXCEPT !.ncols = n] : n \in {1, MinCols - 1}}

\* Rows with enough cells that differ from BaseRow in at most one cell.
FullRows ==
    {BaseRow, [BaseRow EXCEPT !.ncols = MinCols + 1]}
        \cup {[BaseRow EXCEPT !.block = b] : b \in {NoText, <<" ", "8", " ">>}}
        \cup {[BaseRow EXCEPT !.txn = t] : t \in TxnCells}
        \cup {[BaseRow EXCEPT !.ts = t] : t \in {NoText, <<>>}}
        \cup {[BaseRow EXCEPT !.bal = b] : b \in {NoText}}
        \cup {[BaseRow EXCEPT !.amt = a] :
                a \in {NoText, <<"-", "1">>, <<"0">>, <<"x">>}}

Pages == StrSet(ShortRows \cup FullRows, MaxRows)

\* One-row pages whose amount cell is any text over AmountAlphabet.
AmountAlphabet == {"0", "1", ".", "-", "x"}

AmountPages ==
    {<<[r EXCEPT !.amt = a]>> :
        r \in {BaseRow, AltRow}, a \in StrSet(AmountAlphabet, MaxAmountLen)}

\* One-row pages whose transaction cell is any combination of an anchor, an
\* href made of up to MaxHrefParts pieces, an anchor text and a cell text.
HrefParts == {<<"/", "t", "x">>, <<"/">>, <<"a">>}

RECURSIVE Flatten(_)
Flatten(ss) == IF ss = <<>> THEN <<>> ELSE Head(ss) \o Flatten(Tail(ss))

Hrefs == {Flatten(ps) : ps \in StrSet(HrefParts, MaxHrefParts)} \cup {NoneHref}

RichTxnCells ==
    {[text |-> t, hasAnchor |-> FALSE, href |-> NoneHref, anchorText |-> NoText] :
        t \in {<<"c">>, NoText}}
        \cup [text : {<<"c">>, NoText}, hasAnchor : {TRUE}, href : Hrefs,
              anchorText : {<<" ", "a">>, NoText}]

TxnPages == {<<[BaseRow EXCEPT !.txn = t]>> : t \in RichTxnCells}

(***************************************************************************)
(* State.                                                                  *)
(***************************************************************************)
NoneDf == [isNone |-> TRUE, records |-> <<>>]
DataFrame(recs) == [isNone |-> FALSE, records |-> recs]

NoMetrics == [shown |-> FALSE, total |-> 0, inflow |-> 0, outflow |-> 0]

Addresses == {<<>>, <<"0", "x">>}

Init ==
    /\ wallet_address = <<"0", "x">>
    /\ page = <<>>
    /\ pc = "idle"
    /\ driver = "None"
    /\ rows = <<>>
    /\ i = 0
    /\ data = <<>>
    /\ df = NoneDf
    /\ metrics = NoMetrics
    /\ log = <<>>

Say(events) == log' = log \o events

(***************************************************************************)
(* The main block, lines 173-178.                                          *)
(***************************************************************************)
ClickFetch ==
    /\ pc = "idle"
    /\ \E a \in Addresses :
        /\ wallet_address' = a
        /\ IF a = <<>>
           THEN Say(<<"warning:address">>) /\ pc' = "done"
           ELSE Say(<<>>) /\ pc' = "service"
    /\ UNCHANGED <<page, driver, rows, i, data, df, metrics>>

(***************************************************************************)
(* scrape_mantra_data, lines 30-170.                                       *)
(***************************************************************************)
\* Lines 46-55: no chromedriver and no webdriver_manager returns None
\* before the try block.
SetupService ==
    /\ pc = "service"
    /\ \E ok \in BOOLEAN :
        IF ok
        THEN Say(<<>>) /\ pc' = "create" /\ df' = df
        ELSE Say(<<"error:chromedriver">>) /\ pc' = "display" /\ df' = NoneDf
    /\ UNCHANGED <<wallet_address, page, driver, rows, i, data, metrics>>

\* Line 59.
CreateDriver ==
    /\ pc = "create"
    /\ \E ok \in BOOLEAN :
        IF ok
        THEN driver' = "open" /\ Say(<<"driver:created">>) /\ pc' = "navigate"
        ELSE driver' = driver /\ Say(<<>>) /\ pc' = "except"
    /\ UNCHANGED <<wallet_address, page, rows, i, data, df, metrics>>

\* Lines 62-67: driver.get loads one of the pages of `universe`, or raises.
Navigate(universe) ==
    /\ pc = "navigate"
    /\ \/ \E p \in universe :
            /\ page' = p
            /\ Say(<<"info:navigating", "get:ok">>)
            /\ pc' = "wait"
       \/ /\ page' = page
          /\ Say(<<"info:navigating", "get:raised">>)
          /\ pc' = "except"
    /\ UNCHANGED <<wallet_address, driver, rows, i, data, df, metrics>>

\* Lines 70-71: the wait succeeds only when a row is present; it times out
\* when there is none or the page is too slow.
WaitTable ==
    /\ pc = "wait"
    /\ \/ /\ Len(page) > 0
          /\ Say(<<"info:waiting", "wait:ok">>)
          /\ pc' = "toggle"
       \/ /\ Say(<<"info:waiting", "wait:timeout">>)
          /\ pc' = "except"
    /\ UNCHANGED <<wallet_address, page, driver, rows, i, data, df, metrics>>

ToggleTimestampTerminal ==
    /\ pc = "toggle"
    /\ \/ Say(<<"info:toggling", "toggle:clicked">>) /\ pc' = "find_rows"
       \/ Say(<<"info:toggling", "toggle:failed">>) /\ pc' = "except"
    /\ UNCHANGED <<wallet_address, page, driver, rows, i, data, df, metrics>>

\* Lines 74-84: the toggle's own try block; a failure only warns.
ToggleTimestamp ==
    /\ pc = "toggle"
    /\ \/ Say(<<"info:toggling", "toggle:clicked">>)
       \/ Say(<<"info:toggling", "toggle:failed", "warning:toggle">>)
    /\ pc' = "find_rows"
    /\ UNCHANGED <<wallet_address, page, driver, rows, i, data, df, metrics>>

\* Lines 87-92.
FindRows ==
    /\ pc = "find_rows"
    /\ \/ /\ rows' = page
          /\ data' = <<>>
          /\ i' = 1
          /\ Say(<<"info:extracting", "find:ok">>)
          /\ pc' = "loop"
       \/ /\ UNCHANGED <<rows, data, i>>
          /\ Say(<<"info:extracting", "find:raised">>)
          /\ pc' = "except"
    /\ UNCHANGED <<wallet_address, page, driver, df, metrics>>

\* Lines 94-160: one iteration of the loop over rows.
ExtractRow ==
    /\ pc = "loop"
    /\ i <= Len(rows)
    /\ IF ~EnoughCols(rows[i])
       THEN /\ Say(<<"row:skipped">>)
            /\ i' = i + 1
            /\ UNCHANGED <<data, pc>>
       ELSE IF RowRaises(rows[i])
       THEN /\ Say(<<"row:raised">>)
            /\ pc' = "except"
            /\ UNCHANGED <<data, i>>
       ELSE /\ Say(<<"row:read">>)
            /\ data' = Append(data, RowRecord(rows[i]))
            /\ i' = i + 1
            /\ pc' = pc
    /\ UNCHANGED <<wallet_address, page, driver, rows, df, metrics>>

\* Lines 162-163.
ReturnTable ==
    /\ pc = "loop"
    /\ i > Len(rows)
    /\ Say(<<"success:scraped">>)
    /\ df' = DataFrame(data)
    /\ pc' = "finally"
    /\ UNCHANGED <<wallet_address, page, driver, rows, i, data, metrics>>

\* Lines 165-167.
HandleException ==
    /\ pc = "except"
    /\ Say(<<"error:exception">>)
    /\ df' = NoneDf
    /\ pc' = "finally"
    /\ UNCHANGED <<wallet_address, page, driver, rows, i, data, metrics>>

FinallyWithoutQuit ==
    /\ pc = "finally"
    /\ Say(<<>>)
    /\ pc' = "display"
    /\ UNCHANGED <<wallet_address, page, driver, rows, i, data, df, metrics>>

\* Lines 168-170.
Finally ==
    /\ pc = "finally"
    /\ IF driver # "None"
       THEN driver' = "closed" /\ Say(<<"driver:quit">>)
       ELSE driver' = driver /\ Say(<<>>)
    /\ pc' = "display"
    /\ UNCHANGED <<wallet_address, page, rows, i, data, df, metrics>>

(***************************************************************************)
(* The main block, lines 180-222.                                          *)
(***************************************************************************)
CountDirectionNot(records, d) ==
    Len(SelectSeq(records, LAMBDA r : r.Direction # "Neutral"))

\* Lines 182-183: len(df[df['Direction'] == d])
CountDirection(records, d) == Len(SelectSeq(records, LAMBDA r : r.Direction = d))

Display ==
    /\ pc = "display"
    /\ IF ~df.isNone /\ df.records # <<>>
       THEN /\ metrics' = [shown   |-> TRUE,
                           total   |-> Len(df.records),
                           inflow  |-> CountDirection(df.records, "Inflow"),
                           outflow |-> CountDirection(df.records, "Outflow")]
            /\ Say(<<"metrics", "dataframe", "download">>)
       ELSE /\ metrics' = metrics
            /\ Say(<<"error:nodata">>)
    /\ pc' = "done"
    /\ UNCHANGED <<wallet_address, page, driver, rows, i, data, df>>

Scrape ==
    \/ SetupService
    \/ CreateDriver
    \/ WaitTable
    \/ ToggleTimestamp
    \/ FindRows
    \/ ExtractRow
    \/ ReturnTable
    \/ HandleException
    \/ Finally

Next == ClickFetch \/ Navigate(Pages) \/ Scrape \/ Display

Spec == Init /\ [][Next]_vars

\* The same program on pages whose amount cell ranges over all short texts.
NextAmount == ClickFetch \/ Navigate(AmountPages) \/ Scrape \/ Display

SpecAmount == Init /\ [][NextAmount]_vars

\* The same program on pages whose transaction cell ranges over all links.
NextTxn == ClickFetch \/ Navigate(TxnPages) \/ Scrape \/ Display

SpecTxn == Init /\ [][NextTxn]_vars

(***************************************************************************)
(* Vocabulary of the properties.                                           *)
(***************************************************************************)
Count(e) == Cardinality({k \in 1..Len(log) : log[k] = e})
Logged(e) == Count(e) > 0

\* The rows with at least five cells, in page order, among rs.
WithFiveCells(rs) == SelectSeq(rs, LAMBDA r : r.ncols >= 5)

\* The row the k-th emitted record was read from.
Source(k) == WithFiveCells(rows)[k]

Emitted == 1..Len(data)

ErrorEvents == {"error:chromedriver", "error:exception", "error:nodata"}

(***************************************************************************)
(* C1: the Direction of every emitted row is decided by the sign of the    *)
(* number parsed from the cleaned amount text alone: positive is Inflow,   *)
(* negative is Outflow, zero or unparseable (such as '', '-', '1.1.1',     *)
(* '1-1') is Neutral, whatever the other cells of the row hold.            *)
(***************************************************************************)
\* float() accepts the text: one optional leading '-', digits, one '.' at most.
WellFormedNumber(t) ==
    LET body == IF t # <<>> /\ Head(t) = "-" THEN Tail(t) ELSE t
    IN  /\ \A k \in 1..Len(body) : body[k] \in Digits \cup {"."}
        /\ Cardinality({k \in 1..Len(body) : body[k] = "."}) <= 1
        /\ \E k \in 1..Len(body) : body[k] \in Digits

HasNonZeroDigit(t) == \E k \in 1..Len(t) : t[k] \in Digits \ {"0"}

C1_DirectionFromSign ==
    \A k \in Emitted :
        LET clean == SelectSeq(Source(k).amt, LAMBDA c : c \in Digits \cup {".", "-"})
            p     == ParseFloat(clean)
            d     == data[k].Direction
        IN  /\ (p.ok /\ p.num > 0) => d = "Inflow"
            /\ (p.ok /\ p.num < 0) => d = "Outflow"
            /\ (~p.ok \/ p.num = 0) => d = "Neutral"
            /\ p.ok = WellFormedNumber(clean)
            /\ d = "Inflow" <=>
                 WellFormedNumber(clean) /\ HasNonZeroDigit(clean) /\ Head(clean) # "-"
            /\ d = "Outflow" <=>
                 WellFormedNumber(clean) /\ HasNonZeroDigit(clean) /\ Head(clean) = "-"
            /\ clean \in {<<>>, <<"-">>, <<"1", ".", "1", ".", "1">>, <<"1", "-", "1">>}
                 => d = "Neutral"

\* An Outflow row whose amount text held characters the cleaning removed,
\* read from the row whose other cells all differ from the base row's.
C1_Witness ==
    \E k \in Emitted :
        /\ data[k].Direction = "Outflow"
        /\ CleanAmount(data[k].Amount) # data[k].Amount
        /\ Source(k).ncols = AltRow.ncols

(***************************************************************************)
(* C2: once the driver has been created, driver.quit() runs exactly once   *)
(* before scrape_mantra_data returns, on every exit path, and no driver is *)
(* open after the return.                                                  *)
(***************************************************************************)
C2_DriverQuitOnce ==
    /\ Count("driver:created") <= 1
    /\ Count("driver:quit") <= Count("driver:created")
    /\ driver = "open" <=> (Count("driver:created") = 1 /\ Count("driver:quit") = 0)
    /\ pc \in {"display", "done"} =>
         /\ driver # "open"
         /\ Count("driver:quit") = Count("driver:created")

\* Returned through the handler after a row read raised, with the one quit.
C2_Witness ==
    /\ pc = "done"
    /\ Logged("row:raised")
    /\ Count("driver:quit") = 1
    /\ driver = "closed"

(***************************************************************************)
(* C3: one record per row with at least five cells and none for a shorter  *)
(* row, in row order; a short row does not end the loop.                   *)
(***************************************************************************)
C3_OneRecordPerFullRow ==
    LET done == WithFiveCells(SubSeq(rows, 1, i - 1))
    IN  /\ Len(data) = Len(done)
        /\ \A k \in 1..Len(done) :
              /\ data[k].Block = Strip(done[k].block)
              /\ data[k].Timestamp = Strip(done[k].ts)
              /\ data[k].Balance_OM = Strip(done[k].bal)
              /\ data[k].Amount = Strip(done[k].amt)
        /\ ~df.isNone =>
              /\ i = Len(rows) + 1
              /\ rows = page
              /\ df.records = data
              /\ Len(df.records) = Cardinality({k \in 1..Len(page) : page[k].ncols >= 5})

\* A short row first, then a full row: one record, read from the second row.
C3_Witness ==
    /\ ~df.isNone
    /\ Len(rows) = 2
    /\ rows[1].ncols < 5
    /\ rows[2].ncols >= 5
    /\ Len(df.records) = 1
    /\ df.records[1].Amount = Strip(rows[2].amt)

(***************************************************************************)
(* C4: a row with at least five cells of which a single read fails or is   *)
(* missing still yields its record, the rows after it are processed and    *)
(* the function returns the table, not None.                               *)
(***************************************************************************)
Faults(row) ==
    {f \in {"block", "ts", "bal", "amt", "anchor", "href", "anchorText", "cellText"} :
        \/ f = "block" /\ row.block = NoText
        \/ f = "ts" /\ row.ts = NoText
        \/ f = "bal" /\ row.bal = NoText
        \/ f = "amt" /\ row.amt = NoText
        \/ f = "anchor" /\ ~row.txn.hasAnchor
        \/ f = "href" /\ row.txn.hasAnchor /\ row.txn.href = NoneHref
        \/ f = "anchorText" /\ row.txn.hasAnchor /\ row.txn.anchorText = NoText
        \/ f = "cellText" /\ row.txn.text = NoText}

C4_RowFailureRecovered ==
    (/\ pc = "done"
     /\ Logged("find:ok")
     /\ \A k \in 1..Len(rows) : Cardinality(Faults(rows[k])) <= 1)
    => /\ ~df.isNone
       /\ Len(df.records) = Len(WithFiveCells(rows))

(***************************************************************************)
(* C5, as amended: when the anchor's href contains '/tx/', the hash is the *)
(* last piece of the href split at '/tx/' from left to right without       *)
(* overlap (it follows a marker and holds none) and the link field is the  *)
(* href; when the href lacks the marker and the anchor's text can be read, *)
(* the hash is that text, stripped, and the link field is the href; when   *)
(* there is no anchor, no href, or the needed anchor text cannot be read,  *)
(* the hash is the cell's text, stripped, and the link field is empty.     *)
(***************************************************************************)
\* str.split(m): the pieces between the occurrences found left to right.
RECURSIVE SplitPieces(_, _)
SplitPieces(s, m) ==
    IF \E k \in 1..(Len(s) - Len(m) + 1) : SubSeq(s, k, k + Len(m) - 1) = m
    THEN LET k == CHOOSE j \in 1..(Len(s) - Len(m) + 1) :
                     /\ SubSeq(s, j, j + Len(m) - 1) = m
                     /\ \A h \in 1..(j - 1) : SubSeq(s, h, h + Len(m) - 1) # m
         IN  <<SubSeq(s, 1, k - 1)>> \o SplitPieces(SubSeq(s, k + Len(m), Len(s)), m)
    ELSE <<s>>

HasMarker(s) == \E k \in 1..(Len(s) - 3) : SubSeq(s, k, k + 3) = <<"/", "t", "x", "/">>

LinkRead(c) == c.hasAnchor /\ c.href # NoneHref /\ c.href # NoText

C5_TxnHashFromLink ==
    \A k \in Emitted :
        LET c      == Source(k).txn
            pieces == SplitPieces(c.href, <<"/", "t", "x", "/">>)
            hash   == data[k].Txn_Hash
            link   == data[k].Txn_Link
        IN  /\ (LinkRead(c) /\ HasMarker(c.href)) =>
                /\ hash = pieces[Len(pieces)]
                /\ \E pre \in 0..Len(c.href) :
                      c.href = SubSeq(c.href, 1, pre) \o <<"/", "t", "x", "/">> \o hash
                /\ ~HasMarker(hash)
                /\ link = c.href
            /\ (LinkRead(c) /\ ~HasMarker(c.href) /\ c.anchorText # NoText) =>
                /\ hash = Strip(c.anchorText)
                /\ link = c.href
            /\ (~LinkRead(c) \/ (~HasMarker(c.href) /\ c.anchorText = NoText)) =>
                /\ hash = Strip(c.text)
                /\ link = <<>>

\* A link with two markers: the hash is what follows the second.
C5_Witness ==
    \E k \in Emitted :
        /\ LinkRead(Source(k).txn)
        /\ Len(SplitPieces(Source(k).txn.href, TxMarker)) = 3
        /\ data[k].Txn_Hash = <<"a">>
        /\ data[k].Txn_Link = Source(k).txn.href

\* What follows the last place where '/tx/' occurs in s.
AfterLastMarker(s) ==
    LET at == {k \in 1..(Len(s) - 3) : SubSeq(s, k, k + 3) = <<"/", "t", "x", "/">>}
        k  == CHOOSE j \in at : \A h \in at : h <= j
    IN  SubSeq(s, k + 4, Len(s))

\* C5 as stated: the hash follows the last '/tx/' of the link; a link
\* without the marker gives the link's displayed text; no readable link
\* gives the cell's text and an empty link field.
C5_AsStated ==
    \A k \in Emitted :
        LET c == Source(k).txn
        IN  /\ (LinkRead(c) /\ HasMarker(c.href)) =>
                /\ data[k].Txn_Hash = AfterLastMarker(c.href)
                /\ data[k].Txn_Link = c.href
            /\ (LinkRead(c) /\ ~HasMarker(c.href)) =>
                /\ c.anchorText # NoText
                /\ data[k].Txn_Hash = Strip(c.anchorText)
            /\ ~LinkRead(c) =>
                /\ data[k].Txn_Hash = Strip(c.text)
                /\ data[k].Txn_Link = <<>>

(***************************************************************************)
(* C6: the Amount field of an emitted record is the number Direction was   *)
(* computed from; it is zero when the amount text does not parse.          *)
(***************************************************************************)
C6_AmountIsParsedValue ==
    \A k \in Emitted :
        LET parsed == ParseFloat(CleanAmount(Strip(Source(k).amt)))
            val    == Classify(Strip(Source(k).amt)).amount_val
            field  == ParseFloat(data[k].Amount)
        IN  /\ ~parsed.ok => (field.ok /\ field.num = 0)
            /\ field.ok
            /\ field.num = val.num
            /\ field.scale = val.scale

(***************************************************************************)
(* C7: the displayed inflow and outflow counts are the numbers of records  *)
(* with Direction Inflow and Outflow; Neutral records are in neither, and  *)
(* the two counts together never exceed the displayed total.               *)
(***************************************************************************)
Having(d) == {k \in 1..Len(df.records) : df.records[k].Direction = d}

C7_AggregateCounts ==
    metrics.shown =>
        /\ metrics.total = Len(df.records)
        /\ metrics.inflow = Cardinality(Having("Inflow"))
        /\ metrics.outflow = Cardinality(Having("Outflow"))
        /\ metrics.inflow + metrics.outflow + Cardinality(Having("Neutral")) = metrics.total
        /\ metrics.inflow + metrics.outflow <= metrics.total

\* One Inflow, one Outflow and one Neutral record.
C7_Witness ==
    /\ metrics.shown
    /\ metrics.inflow = 1
    /\ metrics.outflow = 1
    /\ metrics.total = 3

(***************************************************************************)
(* C8: a page that was reached but yields no records (no rows, or only     *)
(* skipped rows) ends in an informational message and no error message.    *)
(***************************************************************************)
C8_EmptyResultIsNotAnError ==
    (/\ pc = "done"
     /\ Logged("get:ok")
     /\ \/ page = <<>>
        \/ Logged("success:scraped") /\ df.records = <<>>)
    => \A k \in 1..Len(log) : log[k] \notin ErrorEvents

(***************************************************************************)
(* C9: a record read from a row whose timestamp is empty carries a label   *)
(* that contains the row's block number, never an empty Timestamp.         *)
(***************************************************************************)
C9_TimestampFallback ==
    \A k \in Emitted :
        Strip(Source(k).ts) = <<>> =>
            /\ data[k].Timestamp # <<>>
            /\ Contains(data[k].Timestamp, data[k].Block)

(***************************************************************************)
(* C10: the timestamp toggle is attempted at most once, only after the     *)
(* wait for the first row succeeded; no row is read before the attempt has *)
(* ended; a failed attempt does not end the scrape.                        *)
(***************************************************************************)
ToggleOutcomes == {"toggle:clicked", "toggle:failed"}
ReadEvents == {"find:ok", "find:raised", "row:skipped", "row:read", "row:raised"}

C10_ToggleOrdering ==
    /\ Count("info:toggling") <= 1
    /\ Count("toggle:clicked") + Count("toggle:failed") <= 1
    /\ \A k \in 1..Len(log) :
          /\ log[k] = "info:toggling" => \E j \in 1..(k - 1) : log[j] = "wait:ok"
          /\ log[k] \in ReadEvents => \E j \in 1..(k - 1) : log[j] \in ToggleOutcomes
    /\ (log # <<>> /\ log[Len(log)] \in {"toggle:failed", "warning:toggle"}) =>
          pc = "find_rows"

\* The toggle failed and the table was still returned with a record in it.
C10_Witness ==
    /\ Logged("toggle:failed")
    /\ ~df.isNone
    /\ df.records # <<>>

====
